---- MODULE Spec2Model ----
(***************************************************************************)
(* SensorPulse ingester: the write batcher (BatchWriter), the storage      *)
(* writer (DatabaseWriter) and the supervising Ingester that owns their    *)
(* lifecycle (src/ingester/database.py, src/ingester/main.py), the payload *)
(* parser (src/ingester/parser.py) and the transport's message handler     *)
(* (src/ingester/mqtt_client.py).                                          *)
(*                                                                         *)
(* The asyncio event loop runs one coroutine step at a time: a step runs   *)
(* from one suspension point to the next, so each event-loop action below  *)
(* is one such step.  write_readings runs on an executor thread and is     *)
(* modelled by its own steps, which interleave with the event loop.        *)
(***************************************************************************)
EXTENDS Integers, Sequences, FiniteSets, TLC

\* ------------------------------------------------------------------ bounds
\* settings.batch_size (config.py:76, default 100), scaled down
BatchSize == 2
\* settings.batch_timeout (config.py:80, default 5.0 s), in clock ticks
BatchTimeout == 1
\* the clock runs 0..MaxClock
MaxClock == 2
\* number of readings handed to BatchWriter.add in one run
MaxAdds == 3

\* ------------------------------------------------------------------ data
\* a JSON value under a payload key, as json.loads hands it over: a kind and a
\* number.  Floats are held in tenths; "inf" is the float 1e999 decodes to,
\* "huge" an integer beyond the float range (10**400), "str" the decimal
\* string of n tenths ("85" for 850, "21.5" for 215), "text" a non-numeric
\* string, "list" a JSON array
JsonValue(kind, num) == [k |-> kind, n |-> num]

\* Python's None, which is also what JSON null decodes to
NoneVal == JsonValue("None", 0)
NoTime == 0 - 1

\* outcomes of a conversion that yields no value
Skipped == JsonValue("ValueError/TypeError", 0)
OverflowError == JsonValue("OverflowError", 0)

\* float(value)
float(v) ==
    CASE v.k = "int" -> JsonValue("float", 10 * v.n)
      [] v.k = "bool" -> JsonValue("float", 10 * v.n)
      [] v.k = "float" -> v
      [] v.k = "inf" -> v
      [] v.k = "str" -> JsonValue("float", v.n)
      [] v.k = "huge" -> OverflowError
      [] OTHER -> Skipped

\* int(value): truncates a float, accepts only integer literals as strings
int(v) ==
    CASE v.k = "int" -> v
      [] v.k = "huge" -> v
      [] v.k = "bool" -> JsonValue("int", v.n)
      [] v.k = "float" -> JsonValue("int", v.n \div 10)
      [] v.k = "str" -> IF v.n % 10 = 0 THEN JsonValue("int", v.n \div 10)
                                         ELSE Skipped
      [] v.k = "inf" -> OverflowError
      [] OTHER -> Skipped

\* bool(value), Python truthiness
Truthy(v) ==
    CASE v.k \in {"int", "bool", "float"} -> v.n # 0
      [] v.k = "None" -> FALSE
      [] v.k = "list" -> FALSE
      [] OTHER -> TRUE

\* PayloadParser._extract_float: the first candidate present, non-null and
\* convertible; ValueError and TypeError skip the candidate, any other
\* exception leaves the function
RECURSIVE _extract_float(_, _)
_extract_float(payload, field_names) ==
    IF field_names = <<>> THEN NoneVal
    ELSE LET name == Head(field_names)
         IN  IF name \in DOMAIN payload /\ payload[name] # NoneVal
                  /\ float(payload[name]) # Skipped
             THEN float(payload[name])
             ELSE _extract_float(payload, Tail(field_names))

RECURSIVE _extract_int(_, _)
_extract_int(payload, field_names) ==
    IF field_names = <<>> THEN NoneVal
    ELSE LET name == Head(field_names)
         IN  IF name \in DOMAIN payload /\ payload[name] # NoneVal
                  /\ int(payload[name]) # Skipped
             THEN int(payload[name])
             ELSE _extract_int(payload, Tail(field_names))

\* topics as their '/'-separated segments
Topics == {<<"z", "office">>, <<"z", "bedroom">>}

\* the suffixes of IGNORED_TOPIC_SUFFIXES, each as the segments after its '/'
IGNORED_TOPIC_SUFFIXES ==
    {<<"availability">>, <<"bridge", "state">>, <<"bridge", "info">>,
     <<"bridge", "logging">>, <<"bridge", "devices">>, <<"bridge", "groups">>,
     <<"bridge", "extensions">>, <<"bridge", "config">>}

\* topic.endswith("/" + suffix)
EndsWith(topic, suffix) ==
    /\ Len(topic) > Len(suffix)
    /\ SubSeq(topic, Len(topic) - Len(suffix) + 1, Len(topic)) = suffix

\* should_ignore_topic, wrongly letting availability topics through
should_ignore_topic_bridge_only(topic) ==
    \E suffix \in IGNORED_TOPIC_SUFFIXES :
        Len(suffix) = 2 /\ EndsWith(topic, suffix)

should_ignore_topic(topic) ==
    \E suffix \in IGNORED_TOPIC_SUFFIXES : EndsWith(topic, suffix)

\* extract_device_name, wrongly taking the segment after the first '/'
extract_device_name_second(topic) ==
    IF Len(topic) >= 2 THEN topic[2] ELSE topic[1]

extract_device_name(topic) ==
    IF Len(topic) >= 2 THEN topic[Len(topic)] ELSE topic[1]

\* the candidate keys of each field, in the order parse tries them
TemperatureFields ==
    <<"temperature", "device_temperature", "local_temperature",
      "current_heating_setpoint">>

HumidityFields == <<"humidity", "soil_moisture">>

BatteryFields == <<"battery", "battery_low">>

LinkqualityFields == <<"linkquality", "link_quality">>

\* parse: `if reading.battery is None and "battery_low" in payload`
BatteryLowFallback(battery, payload) ==
    IF battery = NoneVal /\ "battery_low" \in DOMAIN payload
    THEN IF Truthy(payload["battery_low"]) THEN JsonValue("int", 10)
                                           ELSE JsonValue("int", 100)
    ELSE battery

\* is_valid, wrongly accepting every reading
is_valid_always(reading) == reading.topic = reading.topic

\* is_valid, wrongly counting link quality as useful data
is_valid_with_linkquality(reading) ==
    \/ reading.temperature # NoneVal
    \/ reading.humidity # NoneVal
    \/ reading.battery # NoneVal
    \/ reading.linkquality # NoneVal

\* ParsedReading.is_valid
is_valid(reading) ==
    \/ reading.temperature # NoneVal
    \/ reading.humidity # NoneVal
    \/ reading.battery # NoneVal

\* the reading parse builds and fills in; id is the object's identity
Extracted(i, tm, tp, payload) ==
    [id |-> i, time |-> tm, topic |-> tp,
     device_name |-> extract_device_name(tp),
     temperature |-> _extract_float(payload, TemperatureFields),
     humidity |-> _extract_float(payload, HumidityFields),
     battery |-> BatteryLowFallback(_extract_int(payload, BatteryFields),
                                    payload),
     linkquality |-> _extract_int(payload, LinkqualityFields),
     raw_data |-> payload]

\* an extraction raised something other than ValueError or TypeError, which
\* only parse's own `except Exception` catches
ExtractionRaises(payload) ==
    OverflowError \in {_extract_float(payload, TemperatureFields),
                       _extract_float(payload, HumidityFields),
                       _extract_int(payload, BatteryFields),
                       _extract_int(payload, LinkqualityFields)}

\* a parse that returns without counting what it parsed
Outcome_uncounted(ret, parsed, errors) ==
    [reading |-> ret, parse_count |-> 0, error_count |-> errors]

\* what one call of parse gives: the value returned and what it adds to
\* parse_count and error_count
Outcome(ret, parsed, errors) ==
    [reading |-> ret, parse_count |-> parsed, error_count |-> errors]

\* PayloadParser.parse(topic, payload), called at time tm
parse(i, tm, tp, payload) ==
    IF should_ignore_topic(tp) THEN Outcome(NoneVal, 0, 0)
    ELSE IF DOMAIN payload = {} THEN Outcome(NoneVal, 0, 0)
    ELSE IF ExtractionRaises(payload) THEN Outcome(NoneVal, 0, 1)
    ELSE IF ~is_valid(Extracted(i, tm, tp, payload))
         THEN Outcome(NoneVal, 0, 0)
    ELSE Outcome(Extracted(i, tm, tp, payload), 1, 0)

\* the ParsedReading parse returns for a payload that carries a temperature
ParsedReading(i, tm, tp) ==
    parse(i, tm, tp, [temperature |-> JsonValue("int", 20 + i)]).reading

\* the primary key of sensor_readings
Key(x) == <<x.time, x.topic>>

\* the bind parameters of the INSERT: the columns one upsert writes
Row(r) ==
    [time |-> r.time, topic |-> r.topic, temperature |-> r.temperature,
     humidity |-> r.humidity, battery |-> r.battery,
     linkquality |-> r.linkquality, raw_data |-> r.raw_data]

\* INSERT ... ON CONFLICT (time, topic): first-row-wins, a wrong conflict rule
Upsert_keep_first(rows, r) ==
    IF \E x \in rows : Key(x) = Key(r) THEN rows ELSE rows \cup {Row(r)}

\* INSERT ... ON CONFLICT (time, topic) DO UPDATE SET <all non-key columns>
Upsert(rows, r) ==
    {x \in rows : Key(x) # Key(r)} \cup {Row(r)}

RECURSIVE ApplyAll(_, _)
ApplyAll(rows, rs) ==
    IF rs = <<>> THEN rows ELSE ApplyAll(Upsert(rows, Head(rs)), Tail(rs))

Reverse(s) == [i \in 1..Len(s) |-> s[Len(s) + 1 - i]]

\* ------------------------------------------------------------------ tasks
AddTask(i) == <<"add", i>>
Main == <<"main", 0>>
SigStop == <<"stop", 1>>
FinStop == <<"stop", 2>>
NoTask == <<"none", 0>>
\* the most add() calls any specification below makes
MaxTasks == 2 * BatchSize + MaxAdds

AddTasks == {AddTask(i) : i \in 1..MaxTasks}
StopTasks == {SigStop, FinStop}
Tasks == AddTasks \cup {Main} \cup StopTasks

NoJob == [st |-> "none", readings |-> <<>>, ok |-> FALSE, call |-> 0]

VARIABLES
    now,              \* the wall clock (datetime.utcnow)
    running,          \* Ingester._running
    shutdown_event,   \* Ingester._shutdown_event is set
    bw,               \* Ingester.batch_writer is not None
    mqtt_loop,        \* the transport's network loop is running
    batch,            \* BatchWriter.batch
    last_flush,       \* BatchWriter.last_flush
    lock,             \* owner of BatchWriter._lock, or NoTask
    waiters,          \* FIFO queue of tasks waiting for the lock
    engine,           \* DatabaseWriter.engine: "None", "engine", "disposed"
    connected,        \* DatabaseWriter._connected
    write_count,      \* DatabaseWriter.write_count
    error_count,      \* DatabaseWriter.error_count
    last_write_time,  \* DatabaseWriter.last_write_time
    store,            \* committed rows of sensor_readings
    pc,               \* position of every task
    waitStart,        \* when the supervising loop's wait_for began
    created,          \* the readings for which add() was scheduled
    job,              \* per task: its write_readings call on the executor
    calls,            \* history: every write_readings call made by _flush
    appended,         \* history: readings in the order they were appended
    commits,          \* history: readings of committed batches, in order
    pendingAt,        \* history: the buffer when each stop() was invoked
    parse_count,      \* PayloadParser.parse_count
    parser_error_count, \* PayloadParser.error_count
    message_count,    \* MQTTClient._message_count
    mqtt_error_count, \* MQTTClient._error_count
    last_message_time, \* MQTTClient._last_message_time
    input,            \* the topic and payload a lone parse call is given
    returned,         \* what that call returned, NotCalled before it
    messages,         \* history: the messages the transport's handler took
    delivered,        \* history: the calls of the registered callback
    connects,         \* history: the result of every DatabaseWriter.connect
    mqtt_connected,   \* MQTTClient._connected
    client,           \* MQTTClient.client is not None
    connect_time,     \* MQTTClient._connect_time
    outbox,           \* history: what the transport client sent the broker
    handshakes,       \* history: the reason codes _on_connect was given
    response,         \* the last answer of the health server
    steps,            \* history: what each stop() invocation has done
    link_log,         \* history: the transport client's connection events
    ticks             \* history: the buffer each check_timeout left pending

vars == <<now, running, shutdown_event, bw, mqtt_loop, batch, last_flush,
          lock, waiters, engine, connected, write_count, error_count,
          last_write_time, store, pc, waitStart, created, job, calls,
          appended, commits, pendingAt, parse_count, parser_error_count,
          message_count, mqtt_error_count, last_message_time, input,
          returned, messages, delivered, connects, mqtt_connected, client,
          connect_time, outbox, handshakes, response, steps, link_log,
          ticks>>

ingesterVars == <<running, shutdown_event, bw, mqtt_loop>>
batchVars == <<batch, last_flush, lock, waiters>>
dbVars == <<engine, connected, write_count, error_count, last_write_time, store,
            connects>>
histVars == <<calls, appended, commits, pendingAt>>
parserVars == <<parse_count, parser_error_count>>
mqttVars == <<message_count, mqtt_error_count, last_message_time>>
callVars == <<input, returned, messages, delivered>>
msgVars == <<parserVars, mqttVars, callVars>>
linkVars == <<mqtt_connected, client, connect_time, outbox, handshakes,
              link_log>>
opsVars == <<linkVars, response, steps, ticks>>

\* no request answered yet
NoResponse ==
    [path |-> "none", code |-> 0, flag |-> FALSE, mqtt |-> "none",
     database |-> "none"]

\* client.subscribe(settings.mqtt_topic, qos=...)
Subscribe(qos) ==
    [op |-> "subscribe", topic |-> "settings.mqtt_topic", status |-> "none",
     qos |-> qos, retain |-> FALSE, at |-> NoTime]

\* client.publish("sensorpulse/ingester/status", {"status": ...}, qos, retain);
\* `at` is the connected_at figure of the payload, NoTime when it has none
Publish(status, at, qos, retain) ==
    [op |-> "publish", topic |-> "sensorpulse/ingester/status",
     status |-> status, qos |-> qos, retain |-> retain, at |-> at]

\* a lone parse call not made yet
NotCalled == JsonValue("NotCalled", 0)

\* no lone parse call is under study
NoInput == [topic |-> <<>>, payload |-> <<>>]

\* PayloadParser.__init__ and MQTTClient.__init__
MsgInit ==
    /\ parse_count = 0
    /\ parser_error_count = 0
    /\ message_count = 0
    /\ mqtt_error_count = 0
    /\ last_message_time = NoTime
    /\ returned = NotCalled
    /\ messages = <<>>
    /\ delivered = <<>>

\* every object as its constructor leaves it
Constructed ==
    /\ now = 0
    /\ running = FALSE
    /\ shutdown_event = FALSE
    /\ bw = FALSE
    /\ mqtt_loop = FALSE
    /\ batch = <<>>
    /\ last_flush = 0
    /\ lock = NoTask
    /\ waiters = <<>>
    /\ engine = "None"
    /\ connected = FALSE
    /\ write_count = 0
    /\ error_count = 0
    /\ last_write_time = NoTime
    /\ store = {}
    /\ pc = [t \in Tasks |-> IF t = Main THEN "start" ELSE "idle"]
    /\ waitStart = 0
    /\ created = <<>>
    /\ job = [t \in Tasks |-> NoJob]
    /\ calls = <<>>
    /\ appended = <<>>
    /\ commits = <<>>
    /\ pendingAt = [s \in StopTasks |-> <<>>]
    /\ MsgInit
    /\ connects = <<>>
    /\ mqtt_connected = FALSE
    /\ client = FALSE
    /\ connect_time = NoTime
    /\ outbox = <<>>
    /\ handshakes = <<>>
    /\ response = NoResponse
    /\ steps = [s \in StopTasks |-> <<>>]
    /\ link_log = <<>>
    /\ ticks = <<>>

Init == Constructed /\ input = NoInput

\* asyncio.run returns once main()'s finally block has awaited stop(): the
\* remaining tasks are cancelled and take no further step
terminated == pc[FinStop] = "done"


\* ------------------------------------------------------------------ clock
Tick ==
    /\ now < MaxClock
    /\ now' = now + 1
    /\ UNCHANGED <<ingesterVars, batchVars, dbVars, pc, waitStart, created,
                   job, histVars, msgVars, opsVars>>

\* ------------------------------------------------------ BatchWriter._lock
\* asyncio.Lock: release wakes the first waiter, which then owns the lock
LockAfterRelease == IF waiters = <<>> THEN NoTask ELSE Head(waiters)

WaitersAfterRelease == IF waiters = <<>> THEN <<>> ELSE Tail(waiters)

PcRelease(t, next) ==
    IF waiters = <<>>
    THEN [pc EXCEPT ![t] = next]
    ELSE [pc EXCEPT ![t] = next, ![Head(waiters)] = "granted"]

\* `async with self._lock` finds the lock taken: queue up
WaitForLock(t) ==
    /\ lock # NoTask
    /\ waiters' = Append(waiters, t)
    /\ pc' = [pc EXCEPT ![t] = "waitlock"]
    /\ UNCHANGED <<batch, last_flush, lock, job, calls>>

\* leaving `async with self._lock` with buffer b, no write awaited
LeaveLock(t, b, next) ==
    /\ batch' = b
    /\ lock' = LockAfterRelease
    /\ waiters' = WaitersAfterRelease
    /\ pc' = PcRelease(t, next)
    /\ UNCHANGED <<last_flush, job, calls>>

\* --------------------------------------------------------- BatchWriter
SizeReached_gt(b) == Len(b) > BatchSize

SizeReached_never(b) == FALSE

\* add: len(self.batch) >= settings.batch_size
SizeReached(b) == Len(b) >= BatchSize

TimeoutExpired_gt(b, elapsed) == b # <<>> /\ elapsed > BatchTimeout

TimeoutExpired_twice(b, elapsed) == b # <<>> /\ elapsed >= 2 * BatchTimeout

\* check_timeout: self.batch and elapsed >= settings.batch_timeout
TimeoutExpired(b, elapsed) == b # <<>> /\ elapsed >= BatchTimeout

FlushedReadings_reversed(b) == Reverse(b)

FlushedReadings_first(b) == <<Head(b)>>

\* _flush: readings = self.batch, the whole buffer in append order
FlushedReadings(b) == b

LockDuringWrite_released(t) == NoTask

\* add, check_timeout, flush: `await self._flush()` is inside
\* `async with self._lock`, the caller keeps the lock while the write runs
LockDuringWrite(t) == t

LastFlushAfterSwap_kept(old, t) == old

\* _flush: `self.last_flush = datetime.utcnow()` once the buffer is taken
LastFlushAfterSwap(old, t) == t

BatchAfterSwap_kept(b) == b

\* _flush: `self.batch = []` once the buffer has been taken
BatchAfterSwap(b) == <<>>

BatchAfterWrite_requeue(b, readings, ok) == IF ok THEN b ELSE readings \o b

\* _flush after the write returned: the result is ignored, the buffer untouched
BatchAfterWrite(b, readings, ok) == b

\* _flush, called by task t holding the lock, the buffer being b.  An empty
\* buffer returns at once; otherwise the buffer is swapped for an empty one,
\* the last-flush clock is reset and write_readings is submitted to the
\* executor, t staying suspended (and the lock held) until it returns
_flush(t, b, trig, next) ==
    IF b = <<>>
    THEN LeaveLock(t, b, next)
    ELSE /\ batch' = BatchAfterSwap(b)
         /\ last_flush' = LastFlushAfterSwap(last_flush, now)
         /\ job' = [job EXCEPT ![t] =
                      [st |-> "running", readings |-> FlushedReadings(b),
                       ok |-> FALSE, call |-> Len(calls) + 1]]
         /\ calls' = Append(calls, [by |-> t, trigger |-> trig,
                                    readings |-> FlushedReadings(b),
                                    result |-> "running"])
         /\ lock' = LockDuringWrite(t)
         /\ waiters' = waiters
         /\ pc' = [pc EXCEPT ![t] = "writing"]

\* run_in_executor's future is done: t resumes, logs, leaves the lock
AfterWrite(t, next) ==
    /\ pc[t] = "writing"
    /\ job[t].st = "done"
    /\ job' = [job EXCEPT ![t] = NoJob]
    /\ batch' = BatchAfterWrite(batch, job[t].readings, job[t].ok)
    /\ lock' = LockAfterRelease
    /\ waiters' = WaitersAfterRelease
    /\ pc' = PcRelease(t, next)
    /\ UNCHANGED <<last_flush, calls>>

\* the task can enter the critical section in this step
Enters(t, from) ==
    \/ pc[t] = from /\ lock = NoTask
    \/ pc[t] = "granted"

\* --------------------------------------------------- Ingester._on_message
\* a reading comes out of the parser and batch_writer.add(reading) runs its
\* first step on the event loop
Scheduled(i, tp) ==
    /\ ~terminated
    /\ mqtt_loop
    /\ bw
    /\ i = Len(created) + 1
    /\ created' = Append(created, ParsedReading(i, now, tp))
    /\ parse_count' = parse_count + 1
    /\ UNCHANGED <<parser_error_count, mqttVars, callVars, opsVars>>

\* BatchWriter.add: append under the lock, flush when the size is reached
Appends(t, r) ==
    LET b == Append(batch, r)
    IN  /\ appended' = Append(appended, r)
        /\ IF SizeReached(b)
           THEN _flush(t, b, "size", "done")
           ELSE LeaveLock(t, b, "done")

add(i, tp) ==
    /\ Scheduled(i, tp)
    /\ lock = NoTask
    /\ Appends(AddTask(i), ParsedReading(i, now, tp))
    /\ UNCHANGED <<now, ingesterVars, dbVars, waitStart, commits, pendingAt>>

\* add finds the lock taken and waits for it
addWait(i, tp) ==
    /\ Scheduled(i, tp)
    /\ WaitForLock(AddTask(i))
    /\ UNCHANGED <<now, ingesterVars, dbVars, waitStart, histVars>>

\* add is granted the lock
addGranted(i) ==
    /\ ~terminated
    /\ pc[AddTask(i)] = "granted"
    /\ Appends(AddTask(i), created[i])
    /\ UNCHANGED <<msgVars, opsVars, now, ingesterVars, dbVars, waitStart, created, commits, pendingAt>>

addResume(i) ==
    /\ ~terminated
    /\ AfterWrite(AddTask(i), "done")
    /\ UNCHANGED <<msgVars, opsVars, now, ingesterVars, dbVars, waitStart, created, appended,
                   commits, pendingAt>>

\* ---------------------------------------------------------- Ingester.start
BatchWriterCreated_always(ok) == TRUE

\* start: `if not self.db_writer.connect(): sys.exit(1)` comes before
\* `self.batch_writer = BatchWriter(self.db_writer)`
BatchWriterCreated(ok) == ok

\* start() up to its first await: the initial storage connection, then the
\* batch writer.  A failed connection is sys.exit(1), which unwinds to
\* main()'s finally block
Start ==
    /\ pc[Main] = "start"
    /\ engine' = "engine"
    /\ \E ok \in BOOLEAN :
          /\ connected' = ok
          /\ connects' = Append(connects, ok)
          /\ bw' = BatchWriterCreated(ok)
          /\ IF ok
             THEN /\ batch' = <<>>
                  /\ last_flush' = now
                  /\ pc' = [pc EXCEPT ![Main] = "health_start"]
             ELSE /\ pc' = [pc EXCEPT ![Main] = "exited"]
                  /\ UNCHANGED <<batch, last_flush>>
    /\ UNCHANGED <<msgVars, opsVars, now, running, shutdown_event, mqtt_loop, lock, waiters,
                   write_count, error_count, last_write_time, store,
                   waitStart, created, job, histVars>>

\* start() after the health server is up.  MQTTClient.connect creates the
\* paho client and calls connect_async; when it returns True the network loop
\* is started, _running is set and the supervising loop entered.  When it
\* returns False (an exception while the client was set up, raised before or
\* after self.client was assigned) start() calls sys.exit(1)
StartLoop ==
    /\ ~terminated
    /\ pc[Main] = "health_start"
    /\ \/ /\ client' = TRUE
          /\ link_log' = Append(link_log, "connect")
          /\ mqtt_loop' = TRUE
          /\ running' = TRUE
          /\ waitStart' = now
          /\ pc' = [pc EXCEPT ![Main] = "wait"]
       \/ /\ client' \in BOOLEAN
          /\ pc' = [pc EXCEPT ![Main] = "exited"]
          /\ UNCHANGED <<mqtt_loop, running, waitStart, link_log>>
    /\ UNCHANGED <<msgVars, mqtt_connected, connect_time, outbox, handshakes,
                   response, steps, ticks, now, shutdown_event, bw, batchVars,
                   dbVars, created, job, histVars>>

\* wait_for(self._shutdown_event.wait(), timeout=batch_timeout) times out
MainTimeout ==
    /\ ~terminated
    /\ pc[Main] = "wait"
    /\ ~shutdown_event
    /\ now - waitStart >= BatchTimeout
    /\ pc' = [pc EXCEPT ![Main] = "tick"]
    /\ UNCHANGED <<msgVars, opsVars, now, ingesterVars, batchVars, dbVars, waitStart, created,
                   job, histVars>>

\* the shutdown event ends the wait: break, start() returns
MainReturn ==
    /\ ~terminated
    /\ pc[Main] = "wait"
    /\ shutdown_event
    /\ pc' = [pc EXCEPT ![Main] = "returned"]
    /\ UNCHANGED <<msgVars, opsVars, now, ingesterVars, batchVars, dbVars, waitStart, created,
                   job, histVars>>

\* `while self._running` after a tick
AfterTick == IF running THEN "wait" ELSE "returned"

\* BatchWriter.check_timeout, called by the supervising loop after a timeout
check_timeout ==
    /\ ~terminated
    /\ Enters(Main, "tick")
    /\ IF TimeoutExpired(batch, now - last_flush)
       THEN _flush(Main, batch, "timeout", AfterTick)
       ELSE LeaveLock(Main, batch, AfterTick)
    /\ waitStart' = now
    /\ ticks' = Append(ticks, IF TimeoutExpired(batch, now - last_flush)
                              THEN <<>> ELSE batch)
    /\ UNCHANGED <<msgVars, linkVars, response, steps, now, ingesterVars,
                   dbVars, created, appended, commits, pendingAt>>

check_timeoutWait ==
    /\ ~terminated
    /\ pc[Main] = "tick"
    /\ WaitForLock(Main)
    /\ UNCHANGED <<msgVars, opsVars, now, ingesterVars, dbVars, waitStart, created, histVars>>

check_timeoutResume ==
    /\ ~terminated
    /\ AfterWrite(Main, AfterTick)
    /\ waitStart' = now
    /\ UNCHANGED <<msgVars, opsVars, now, ingesterVars, dbVars, created, appended, commits, pendingAt>>

\* ----------------------------------------------------------- Ingester.stop
StopFlushes_never == FALSE

\* stop: `if self.batch_writer:` await self.batch_writer.flush()
StopFlushes == bw

MqttStopOps_teardown_first ==
    <<"loop_stop", "mqtt_disconnect", "publish_offline">>

\* MQTTClient.stop: client.publish(offline), client.loop_stop(),
\* client.disconnect()
MqttStopOps == <<"publish_offline", "loop_stop", "mqtt_disconnect">>

ConnectedAfterStop_kept == mqtt_connected

\* MQTTClient.stop: self._connected = False
ConnectedAfterStop == FALSE

\* stop() of invocation s goes from its forced flush (flushed tells whether it
\* made one) into mqtt_client.stop(), which does nothing without a client
TransportStop(s, flushed) ==
    /\ steps' = [steps EXCEPT ![s] =
                    @ \o (IF flushed THEN <<"flush">> ELSE <<>>)
                      \o (IF client THEN MqttStopOps ELSE <<>>)]
    /\ IF client
       THEN /\ outbox' = Append(outbox, Publish("offline", NoTime, 1, TRUE))
            /\ mqtt_loop' = FALSE
            /\ mqtt_connected' = ConnectedAfterStop
            /\ link_log' = Append(link_log, "stop")
       ELSE UNCHANGED <<outbox, mqtt_loop, mqtt_connected, link_log>>
    /\ UNCHANGED <<client, connect_time, handshakes, response, ticks>>

\* stop() is invoked: by the signal handler's task, or by main()'s finally
Invoked(s) ==
    /\ pc[s] = "idle"
    /\ IF s = SigStop
       THEN pc[Main] # "start" /\ ~terminated
       ELSE pc[Main] \in {"returned", "exited"}

\* stop() up to its first suspension: _running cleared, the shutdown event
\* set, then the forced flush; with nothing to flush it goes on to stop the
\* transport and awaits the health server's stop
stop(s) ==
    /\ Invoked(s)
    /\ lock = NoTask \/ ~StopFlushes
    /\ running' = FALSE
    /\ shutdown_event' = TRUE
    /\ pendingAt' = [pendingAt EXCEPT ![s] = batch]
    /\ IF StopFlushes
       THEN _flush(s, batch, "forced", "health")
       ELSE /\ pc' = [pc EXCEPT ![s] = "health"]
            /\ UNCHANGED <<batchVars, job, calls>>
    /\ IF StopFlushes /\ batch # <<>>
       THEN UNCHANGED <<mqtt_loop, opsVars>>
       ELSE TransportStop(s, StopFlushes)
    /\ UNCHANGED <<msgVars, now, bw, dbVars, waitStart, created, appended, commits>>

stopWait(s) ==
    /\ Invoked(s)
    /\ StopFlushes
    /\ running' = FALSE
    /\ shutdown_event' = TRUE
    /\ pendingAt' = [pendingAt EXCEPT ![s] = batch]
    /\ WaitForLock(s)
    /\ UNCHANGED <<msgVars, opsVars, now, bw, mqtt_loop, dbVars, waitStart, created, appended,
                   commits>>

\* the forced flush, once the lock is granted
flush(s) ==
    /\ ~terminated
    /\ pc[s] = "granted"
    /\ _flush(s, batch, "forced", "health")
    /\ IF batch # <<>>
       THEN UNCHANGED <<mqtt_loop, opsVars>>
       ELSE TransportStop(s, TRUE)
    /\ UNCHANGED <<msgVars, now, running, shutdown_event, bw, dbVars, waitStart,
                   created, appended, commits, pendingAt>>

\* the forced flush's write returned: mqtt_client.stop(), then the health
\* server's stop is awaited
flushResume(s) ==
    /\ ~terminated
    /\ AfterWrite(s, "health")
    /\ TransportStop(s, TRUE)
    /\ UNCHANGED <<msgVars, now, running, shutdown_event, bw, dbVars, waitStart,
                   created, appended, commits, pendingAt>>

\* DatabaseWriter.disconnect, the last step of stop()
disconnect(s) ==
    /\ ~terminated
    /\ pc[s] = "health"
    /\ pc' = [pc EXCEPT ![s] = "done"]
    /\ IF engine # "None"
       THEN engine' = "disposed" /\ connected' = FALSE
       ELSE UNCHANGED <<engine, connected>>
    /\ steps' = [steps EXCEPT ![s] = Append(@, "db_disconnect")]
    /\ UNCHANGED <<msgVars, linkVars, response, ticks, now, ingesterVars,
                   batchVars, write_count, error_count, last_write_time, store, connects, waitStart, created, job, histVars>>


\* ------------------------------------------- DatabaseWriter.write_readings
\* the call of task t's flush, executed by an executor thread

\* get_session's `except: session.rollback()`, wrongly keeping the upserts
Rollback_keeps(rows, executed) == ApplyAll(rows, executed)

\* get_session: `except Exception: session.rollback(); raise`
Rollback(rows, executed) == rows

\* get_session: session.commit() after the with-body
Commit(rows, executed) == ApplyAll(rows, executed)

UpsertOrder_reversed(readings) == Reverse(readings)

\* `for reading in readings: session.execute(insert_sql, ...)`
UpsertOrder(readings) == readings

\* the call returns: the future of run_in_executor is done
Returns(t, ok) ==
    /\ job' = [job EXCEPT ![t].st = "done", ![t].ok = ok]
    /\ calls' = [calls EXCEPT ![job[t].call].result =
                    IF ok THEN "ok" ELSE "fail"]

\* `except SQLAlchemyError`: count the error, mark disconnected, return False
WriteFailed(t, executed) ==
    /\ error_count' = error_count + 1
    /\ connected' = FALSE
    /\ store' = Rollback(store, executed)
    /\ Returns(t, FALSE)

NeedsReconnect_always(isConnected) == TRUE

\* write_readings: `if not self._connected:` attempt the inline reconnect
NeedsReconnect(isConnected) == ~isConnected

\* DatabaseWriter.engine once write_readings is past its connected check: the
\* inline reconnect (DatabaseWriter.connect) assigns a new engine
EngineAfterCheck == IF NeedsReconnect(connected) THEN "engine" ELSE engine

\* the calls of DatabaseWriter.connect once write_readings is past its
\* connected check, the inline reconnect having succeeded when there was one
ConnectsAfterCheck ==
    IF NeedsReconnect(connected) THEN Append(connects, TRUE) ELSE connects

\* write_readings, run by the executor while task t awaits it.  Its outcomes:
\* the empty batch returns True at once; the inline reconnect fails; one
\* session.execute of the loop raises after k upserts; every upsert succeeds,
\* the statistics are updated inside the with-body and `return True` leaves
\* the with-block, where get_session commits or fails to
write_readings(t) ==
    LET rs == job[t].readings
    IN  /\ job[t].st = "running"
        /\ \/ /\ rs = <<>>
              /\ Returns(t, TRUE)
              /\ UNCHANGED <<dbVars, commits>>
           \/ /\ rs # <<>>
              /\ NeedsReconnect(connected)
              /\ engine' = "engine"
              /\ connected' = FALSE
              /\ connects' = Append(connects, FALSE)
              /\ Returns(t, FALSE)
              /\ UNCHANGED <<write_count, error_count, last_write_time,
                             store, commits>>
           \/ /\ rs # <<>>
              /\ engine' = EngineAfterCheck
              /\ connects' = ConnectsAfterCheck
              /\ \E k \in 0..(Len(rs) - 1) :
                    WriteFailed(t, SubSeq(UpsertOrder(rs), 1, k))
              /\ UNCHANGED <<write_count, last_write_time, commits>>
           \/ /\ rs # <<>>
              /\ engine' = EngineAfterCheck
              /\ connects' = ConnectsAfterCheck
              /\ write_count' = write_count + Len(rs)
              /\ last_write_time' = now
              /\ \/ /\ store' = Commit(store, UpsertOrder(rs))
                    /\ commits' = commits \o UpsertOrder(rs)
                    /\ Returns(t, TRUE)
                    /\ connected' = TRUE
                    /\ error_count' = error_count
                 \/ /\ WriteFailed(t, UpsertOrder(rs))
                    /\ UNCHANGED commits
        /\ UNCHANGED <<msgVars, opsVars, now, ingesterVars, batchVars, pc, waitStart, created,
                       appended, pendingAt>>

\* ------------------------------------------------------------------- spec
\* the event-loop steps of add, check_timeout and their writes
Batching(n, topics) ==
    \/ \E i \in 1..n, tp \in topics : add(i, tp)
    \/ \E i \in 1..n, tp \in topics : addWait(i, tp)
    \/ \E i \in 1..n : addGranted(i)
    \/ \E i \in 1..n : addResume(i)
    \/ \E t \in Tasks : write_readings(t)

Supervising ==
    \/ Tick
    \/ Start
    \/ StartLoop
    \/ MainTimeout
    \/ check_timeout
    \/ check_timeoutWait
    \/ check_timeoutResume

Stopping ==
    \/ MainReturn
    \/ \E s \in StopTasks : stop(s)
    \/ \E s \in StopTasks : stopWait(s)
    \/ \E s \in StopTasks : flush(s)
    \/ \E s \in StopTasks : flushResume(s)
    \/ \E s \in StopTasks : disconnect(s)

\* the whole ingester, from process start to the end of main(); a shutdown
\* signal may arrive at any time
Next == Batching(MaxAdds - 1, {<<"z", "office">>}) \/ Supervising \/ Stopping

Spec == Init /\ [][Next]_vars

\* the ingester while no shutdown signal arrives
NextRunning == Batching(MaxAdds, Topics) \/ Supervising

SpecRunning == Init /\ [][NextRunning]_vars

\* N readings added to the empty BatchWriter of a started ingester, nothing
\* else calling it.  The ingester has gone through start() and its transport
\* through a first successful handshake
Started ==
    /\ now = 0
    /\ running = TRUE
    /\ shutdown_event = FALSE
    /\ bw = TRUE
    /\ mqtt_loop = TRUE
    /\ batch = <<>>
    /\ last_flush = 0
    /\ lock = NoTask
    /\ waiters = <<>>
    /\ engine = "engine"
    /\ connected = TRUE
    /\ write_count = 0
    /\ error_count = 0
    /\ last_write_time = NoTime
    /\ store = {}
    /\ pc = [t \in Tasks |-> IF t = Main THEN "wait" ELSE "idle"]
    /\ waitStart = 0
    /\ created = <<>>
    /\ job = [t \in Tasks |-> NoJob]
    /\ calls = <<>>
    /\ appended = <<>>
    /\ commits = <<>>
    /\ pendingAt = [s \in StopTasks |-> <<>>]
    /\ MsgInit
    /\ connects = <<TRUE>>
    /\ mqtt_connected = TRUE
    /\ client = TRUE
    /\ connect_time = 0
    /\ outbox = <<Subscribe(1), Publish("online", 0, 1, TRUE)>>
    /\ handshakes = <<0>>
    /\ response = NoResponse
    /\ steps = [s \in StopTasks |-> <<>>]
    /\ link_log = <<"connect", "handshake_ok">>
    /\ ticks = <<>>

InitAdds == Started /\ input = NoInput

NextAdds == Batching(2 * BatchSize, Topics)

SpecAdds == InitAdds /\ [][NextAdds]_vars

\* ------------------------------------------ a tick of the loop that raises
\* write_readings catches SQLAlchemyError only: any other exception raised in
\* its with-block is re-raised by get_session after the rollback and leaves
\* the call, the counters untouched; run_in_executor hands it to the task
\* that awaits the write
write_readingsRaises(t) ==
    /\ job[t].st = "running"
    /\ job[t].readings # <<>>
    /\ engine' = EngineAfterCheck
    /\ connects' = ConnectsAfterCheck
    /\ connected' = TRUE
    /\ store' = Rollback(store, <<>>)
    /\ job' = [job EXCEPT ![t].st = "raised"]
    /\ calls' = [calls EXCEPT ![job[t].call].result = "raised"]
    /\ UNCHANGED <<write_count, error_count, last_write_time, commits,
                   msgVars, opsVars, now, ingesterVars, batchVars, pc,
                   waitStart, created, appended, pendingAt>>

\* the exception leaves _flush and `async with self._lock` in task t
Raised(t, next) ==
    /\ pc[t] = "writing"
    /\ job[t].st = "raised"
    /\ job' = [job EXCEPT ![t] = NoJob]
    /\ lock' = LockAfterRelease
    /\ waiters' = WaitersAfterRelease
    /\ pc' = PcRelease(t, next)
    /\ UNCHANGED <<batch, last_flush, calls>>

\* the exception ends the task of an add
addRaised(i) ==
    /\ ~terminated
    /\ Raised(AddTask(i), "done")
    /\ UNCHANGED <<msgVars, opsVars, now, ingesterVars, dbVars, waitStart,
                   created, appended, commits, pendingAt>>

AfterError_ends == "returned"

\* start: `except Exception as e:` inside `while self._running` logs
\* "Error in main loop" and awaits asyncio.sleep(1)
AfterError == "sleep"

\* the exception leaves check_timeout in the supervising loop
check_timeoutRaised ==
    /\ ~terminated
    /\ Raised(Main, AfterError)
    /\ UNCHANGED <<msgVars, opsVars, now, ingesterVars, dbVars, waitStart,
                   created, appended, commits, pendingAt>>

\* asyncio.sleep(1) is over, at a time the clock's ticks do not resolve; the
\* loop tests `while self._running` and starts its next wait_for
MainSleep ==
    /\ ~terminated
    /\ pc[Main] = "sleep"
    /\ pc' = [pc EXCEPT ![Main] = AfterTick]
    /\ waitStart' = now
    /\ UNCHANGED <<msgVars, opsVars, now, ingesterVars, batchVars, dbVars,
                   created, job, histVars>>

\* the clock of a run long enough for two timeouts of the loop
Elapse ==
    /\ now < 2 * BatchTimeout
    /\ now' = now + 1
    /\ UNCHANGED <<ingesterVars, batchVars, dbVars, pc, waitStart, created,
                   job, histVars, msgVars, opsVars>>

\* a started ingester whose writes may raise
NextTicks ==
    \/ Batching(MaxAdds - 1, {<<"z", "office">>})
    \/ Elapse
    \/ MainTimeout
    \/ check_timeout
    \/ check_timeoutWait
    \/ check_timeoutResume
    \/ \E t \in AddTasks \cup {Main} : write_readingsRaises(t)
    \/ \E i \in 1..(MaxAdds - 1) : addRaised(i)
    \/ check_timeoutRaised
    \/ MainSleep

SpecTicks == InitAdds /\ [][NextTicks]_vars

\* ------------------------------------------------ broker link and probes
\* number of handshakes the broker answers in one run
MaxHandshakes == 2

\* CONNACK reason codes: success, not authorized
ReasonCodes == {0, 5}

HandshakeOk_any(reason_code) == TRUE

\* _on_connect: `if reason_code == 0`
HandshakeOk(reason_code) == reason_code = 0

\* MQTTClient._on_connect, called by the network loop when the broker answers
\* a connection attempt, the first one or an automatic reconnect
_on_connect(reason_code) ==
    /\ ~terminated
    /\ mqtt_loop
    /\ ~mqtt_connected
    /\ Len(handshakes) < MaxHandshakes
    /\ handshakes' = Append(handshakes, reason_code)
    /\ link_log' = Append(link_log, IF reason_code = 0 THEN "handshake_ok"
                                                       ELSE "handshake_failed")
    /\ IF HandshakeOk(reason_code)
       THEN /\ mqtt_connected' = TRUE
            /\ connect_time' = now
            /\ outbox' = outbox \o <<Subscribe(1),
                                      Publish("online", now, 1, TRUE)>>
       ELSE /\ mqtt_connected' = FALSE
            /\ UNCHANGED <<connect_time, outbox>>
    /\ UNCHANGED <<now, ingesterVars, batchVars, dbVars, pc, waitStart,
                   created, job, histVars, msgVars, client, response, steps,
                   ticks>>

\* MQTTClient._on_disconnect, called by the network loop when the connection
\* to the broker is lost
_on_disconnect ==
    /\ ~terminated
    /\ mqtt_loop
    /\ mqtt_connected
    /\ mqtt_connected' = FALSE
    /\ link_log' = Append(link_log, "disconnect")
    /\ UNCHANGED <<now, ingesterVars, batchVars, dbVars, pc, waitStart,
                   created, job, histVars, msgVars, client, connect_time,
                   outbox, handshakes, response, steps, ticks>>

\* Ingester._get_stats, as far as the probes read it: the connected figures
\* of MQTTClient.get_stats and DatabaseWriter.get_stats
_get_stats ==
    [mqtt |-> [connected |-> mqtt_connected],
     database |-> [connected |-> connected]]

\* _health_handler: is_healthy = mqtt_ok and db_ok
IsHealthy(mqtt_ok, db_ok) == mqtt_ok /\ db_ok

IsReady_either(mqtt_ok, db_ok) == mqtt_ok \/ db_ok

\* _ready_handler: is_ready = mqtt_ok and db_ok
IsReady(mqtt_ok, db_ok) == mqtt_ok /\ db_ok

\* the answer of _health_handler: status code, body status and checks
HealthResponse(stats) ==
    LET mqtt_ok == stats.mqtt.connected
        db_ok == stats.database.connected
        is_healthy == IsHealthy(mqtt_ok, db_ok)
    IN  [path |-> "/health",
         code |-> IF is_healthy THEN 200 ELSE 503,
         flag |-> is_healthy,
         mqtt |-> IF mqtt_ok THEN "ok" ELSE "fail",
         database |-> IF db_ok THEN "ok" ELSE "fail"]

\* the answer of _ready_handler: status code and the body's ready figure
ReadyResponse(stats) ==
    LET mqtt_ok == stats.mqtt.connected
        db_ok == stats.database.connected
        is_ready == IsReady(mqtt_ok, db_ok)
    IN  [path |-> "/ready",
         code |-> IF is_ready THEN 200 ELSE 503,
         flag |-> is_ready,
         mqtt |-> "none",
         database |-> "none"]

\* the health server is serving: started by start() once the batch writer
\* exists, until a stop() awaits its stop
HealthUp ==
    /\ ~terminated
    /\ bw
    /\ \A s \in StopTasks : pc[s] \notin {"health", "done"}

Answers(r) ==
    /\ HealthUp
    /\ response' = r
    /\ UNCHANGED <<now, ingesterVars, batchVars, dbVars, pc, waitStart,
                   created, job, histVars, msgVars, linkVars, steps, ticks>>

_health_handler == Answers(HealthResponse(_get_stats))

_ready_handler == Answers(ReadyResponse(_get_stats))

Linking ==
    \/ \E reason_code \in ReasonCodes : _on_connect(reason_code)
    \/ _on_disconnect

Probing ==
    \/ _health_handler
    \/ _ready_handler

\* one batch of readings is added and written, no add meeting a held lock
Filling ==
    \/ \E i \in 1..BatchSize : add(i, <<"z", "office">>)
    \/ \E i \in 1..BatchSize : addResume(i)
    \/ \E t \in AddTasks : write_readings(t)

\* an ingester that starts, connects to the broker, loses and regains the
\* connection, writes one batch of readings and is probed meanwhile
NextLink ==
    \/ Tick
    \/ Start
    \/ StartLoop
    \/ Linking
    \/ Probing
    \/ Filling

SpecLink == Init /\ [][NextLink]_vars

\* stop() with nothing buffered: straight from the forced flush through
\* the transport's stop to the release of the storage connection
Ending ==
    \/ MainReturn
    \/ \E s \in StopTasks : stop(s)
    \/ \E s \in StopTasks : disconnect(s)

\* the life of the transport's connection: the ingester starts, the broker
\* accepts or refuses handshakes and drops connections, a shutdown signal
\* may arrive at any time; no message is received
NextSession ==
    \/ Tick
    \/ Start
    \/ StartLoop
    \/ Linking
    \/ Ending

SpecSession == Init /\ [][NextSession]_vars

\* --------------------------------------------------- write_readings alone
\* the batches a lone write_readings call is given: none to BatchSize readings
WriterBatches ==
    UNION {{[j \in 1..n |-> ParsedReading(j, 0, f[j])] : f \in [1..n -> Topics]} :
             n \in 0..BatchSize}

\* the DatabaseWriter before the call: freshly connected, after a failed
\* write, after a failed inline reconnect, after disconnect()
WriterStates ==
    {[engine |-> "engine", connected |-> TRUE, error_count |-> 0,
      connects |-> <<TRUE>>],
     [engine |-> "engine", connected |-> FALSE, error_count |-> 1,
      connects |-> <<TRUE>>],
     [engine |-> "engine", connected |-> FALSE, error_count |-> 1,
      connects |-> <<TRUE, FALSE>>],
     [engine |-> "disposed", connected |-> FALSE, error_count |-> 0,
      connects |-> <<TRUE>>]}

\* the table before the call: empty, or holding a row the batch may update
WriterStores == {{}, {Row(ParsedReading(0, 0, <<"z", "office">>))}}

\* a started ingester whose main task calls write_readings(rs) directly
InitWriter ==
    /\ now = 0
    /\ running = TRUE
    /\ shutdown_event = FALSE
    /\ bw = TRUE
    /\ mqtt_loop = TRUE
    /\ batch = <<>>
    /\ last_flush = 0
    /\ lock = NoTask
    /\ waiters = <<>>
    /\ \E w \in WriterStates :
          /\ engine = w.engine
          /\ connected = w.connected
          /\ error_count = w.error_count
          /\ connects = w.connects
    /\ write_count = 0
    /\ last_write_time = NoTime
    /\ store \in WriterStores
    /\ pc = [t \in Tasks |-> IF t = Main THEN "wait" ELSE "idle"]
    /\ waitStart = 0
    /\ created = <<>>
    /\ \E rs \in WriterBatches :
          /\ job = [t \in Tasks |->
                      IF t = Main
                      THEN [st |-> "running", readings |-> rs, ok |-> FALSE,
                            call |-> 1]
                      ELSE NoJob]
          /\ calls = <<[by |-> Main, trigger |-> "direct", readings |-> rs,
                        result |-> "running"]>>
    /\ appended = <<>>
    /\ commits = <<>>
    /\ pendingAt = [s \in StopTasks |-> <<>>]
    /\ MsgInit
    /\ input = NoInput
    /\ mqtt_connected = TRUE
    /\ client = TRUE
    /\ connect_time = 0
    /\ outbox = <<Subscribe(1), Publish("online", 0, 1, TRUE)>>
    /\ handshakes = <<0>>
    /\ response = NoResponse
    /\ steps = [s \in StopTasks |-> <<>>]
    /\ link_log = <<"connect", "handshake_ok">>
    /\ ticks = <<>>

NextWriter == write_readings(Main)

SpecWriter == InitWriter /\ [][NextWriter]_vars

\* ------------------------------------------------------------ parse alone
\* the most keys a payload given to a lone parse call holds
MaxKeys == 2

PayloadKeys ==
    {"temperature", "device_temperature", "local_temperature",
     "current_heating_setpoint", "humidity", "soil_moisture", "battery",
     "battery_low", "linkquality", "link_quality"}

\* null, 21, 85.9, 1e999, 10**400, true, false, "85", "85.5", "abc"
PayloadValues ==
    {NoneVal, JsonValue("int", 21), JsonValue("float", 859),
     JsonValue("inf", 0), JsonValue("huge", 0), JsonValue("bool", 1),
     JsonValue("bool", 0), JsonValue("str", 850), JsonValue("str", 855),
     JsonValue("text", 0)}

\* the JSON objects with at most n of the keys
Payloads(n) ==
    UNION {[K -> PayloadValues] :
             K \in {K \in SUBSET PayloadKeys : Cardinality(K) <= n}}

SensorTopics ==
    {<<"sensor1">>, <<"z", "office">>, <<"zigbee2mqtt", "floor1", "bedroom">>,
     <<"availability">>, <<"z", "bridge", "request">>}

\* a topic ending in each ignored suffix
IgnoredTopics == {<<"z">> \o suffix : suffix \in IGNORED_TOPIC_SUFFIXES}

\* every topic with the payloads of at most one key, one sensor topic with
\* the payloads of up to MaxKeys keys
ParserInputs ==
    {[topic |-> tp, payload |-> p] :
        tp \in SensorTopics \cup IgnoredTopics, p \in Payloads(1)}
    \cup {[topic |-> <<"z", "office">>, payload |-> p] : p \in Payloads(MaxKeys)}

InitParser == Constructed /\ input \in ParserInputs

\* one call parser.parse(topic, payload) on a new PayloadParser
ParseCall ==
    /\ returned = NotCalled
    /\ input # NoInput
    /\ LET o == parse(1, now, input.topic, input.payload)
       IN  /\ returned' = o.reading
           /\ parse_count' = parse_count + o.parse_count
           /\ parser_error_count' = parser_error_count + o.error_count
    /\ UNCHANGED <<now, ingesterVars, batchVars, dbVars, pc, waitStart,
                   created, job, histVars, mqttVars, input, messages,
                   delivered, opsVars>>

NextParser == ParseCall

SpecParser == InitParser /\ [][NextParser]_vars

\* ------------------------------------------------------------- transport
\* number of messages the broker delivers in one run
MaxMessages == 3

\* what message.payload holds: bytes that are not UTF-8, text that is not
\* JSON, a JSON value that is not an object, a JSON object
Raw(kind, value) == [kind |-> kind, value |-> value]

RawPayloads ==
    {Raw("not_utf8", <<>>), Raw("not_json", <<>>),
     Raw("scalar", JsonValue("list", 0)),
     Raw("object", [linkquality |-> JsonValue("int", 21)]),
     Raw("object", [temperature |-> JsonValue("int", 21)])}

TransportTopics == {<<"z", "office">>, <<"z", "bedroom">>, <<"z", "fridge">>}

\* message.payload.decode("utf-8") raises UnicodeDecodeError, which only the
\* outer `except Exception` catches
DecodeRaises(raw) == raw.kind = "not_utf8"

\* json.loads raises JSONDecodeError: the inner handler returns
NotJson(raw) == raw.kind = "not_json"

\* `self._message_callback and isinstance(payload, dict)`
CallsBack(raw) == raw.kind = "object"

\* the reading Ingester._on_message gets from the parser for this message
Parsed(tp, raw) == parse(Len(created) + 1, now, tp, raw.value)

\* the message makes Ingester._on_message create an add task
CreatesTask(tp, raw) == CallsBack(raw) /\ Parsed(tp, raw).reading # NoneVal

\* MQTTClient._on_message up to and including the callback's parser.parse:
\* the transport's and the parser's counters; raises tells whether the
\* callback goes on to raise, which the outer `except Exception` counts
Handles(tp, raw, raises) ==
    /\ ~terminated
    /\ mqtt_loop
    /\ Len(messages) < MaxMessages
    /\ messages' = Append(messages, [topic |-> tp, raw |-> raw])
    /\ mqtt_error_count' =
          IF DecodeRaises(raw) \/ raises THEN mqtt_error_count + 1
                                        ELSE mqtt_error_count
    /\ message_count' =
          IF DecodeRaises(raw) \/ NotJson(raw) THEN message_count
                                               ELSE message_count + 1
    /\ last_message_time' =
          IF DecodeRaises(raw) \/ NotJson(raw) THEN last_message_time ELSE now
    /\ delivered' =
          IF CallsBack(raw)
          THEN Append(delivered, [topic |-> tp, payload |-> raw.value])
          ELSE delivered
    /\ parse_count' =
          IF CallsBack(raw) THEN parse_count + Parsed(tp, raw).parse_count
                            ELSE parse_count
    /\ parser_error_count' =
          IF CallsBack(raw)
          THEN parser_error_count + Parsed(tp, raw).error_count
          ELSE parser_error_count
    /\ UNCHANGED <<input, returned, opsVars>>

\* the same, the callback returning normally
Handled(tp, raw) == Handles(tp, raw, FALSE)

\* asyncio.create_task, called by Ingester._on_message in a thread that runs
\* no event loop, raises RuntimeError("no running event loop")
CreateTaskRaises(on_loop_thread) == ~on_loop_thread

\* a message that leads to no add: dropped by the transport or by the parser
on_messageDrop(tp, raw) ==
    /\ Handled(tp, raw)
    /\ ~CreatesTask(tp, raw)
    /\ UNCHANGED <<now, ingesterVars, batchVars, dbVars, pc, waitStart,
                   created, job, histVars>>

\* a message whose reading is handed to batch_writer.add, which takes the lock
on_messageAdd(tp, raw) ==
    /\ Handled(tp, raw)
    /\ CreatesTask(tp, raw)
    /\ created' = Append(created, Parsed(tp, raw).reading)
    /\ lock = NoTask
    /\ Appends(AddTask(Len(created) + 1), Parsed(tp, raw).reading)
    /\ UNCHANGED <<now, ingesterVars, dbVars, waitStart, commits, pendingAt>>

\* a message whose reading is handed to batch_writer.add, which has to wait
on_messageAddWait(tp, raw) ==
    /\ Handled(tp, raw)
    /\ CreatesTask(tp, raw)
    /\ created' = Append(created, Parsed(tp, raw).reading)
    /\ WaitForLock(AddTask(Len(created) + 1))
    /\ UNCHANGED <<now, ingesterVars, dbVars, waitStart, histVars>>

Receiving ==
    \/ \E tp \in TransportTopics, raw \in RawPayloads : on_messageDrop(tp, raw)
    \/ \E tp \in TransportTopics, raw \in RawPayloads : on_messageAdd(tp, raw)
    \/ \E tp \in TransportTopics, raw \in RawPayloads :
          on_messageAddWait(tp, raw)
    \/ \E i \in 1..MaxMessages : addGranted(i)
    \/ \E i \in 1..MaxMessages : addResume(i)
    \/ \E t \in Tasks : write_readings(t)

\* a started ingester receiving messages
NextTransport == Receiving

\* a message whose reading Ingester._on_message hands to asyncio.create_task
\* in the thread of the network loop that MQTTClient.start set going with
\* loop_start: no task is created, the transport counts an error
on_messageThread(tp, raw) ==
    /\ CreatesTask(tp, raw)
    /\ Handles(tp, raw, CreateTaskRaises(FALSE))
    /\ IF CreateTaskRaises(FALSE)
       THEN UNCHANGED <<created, batchVars, job, histVars>>
       ELSE /\ created' = Append(created, Parsed(tp, raw).reading)
            /\ Appends(AddTask(Len(created) + 1), Parsed(tp, raw).reading)
            /\ UNCHANGED <<commits, pendingAt>>
    /\ UNCHANGED <<now, ingesterVars, dbVars, pc, waitStart>>

\* a started ingester whose transport delivers every message on the thread
\* of its network loop
NextNetwork ==
    \/ \E tp \in TransportTopics, raw \in RawPayloads : on_messageDrop(tp, raw)
    \/ \E tp \in TransportTopics, raw \in RawPayloads :
          on_messageThread(tp, raw)

SpecNetwork == InitAdds /\ [][NextNetwork]_vars

SpecTransport == InitAdds /\ [][NextTransport]_vars

\* ------------------------------------------------------------ type sanity
TypeOK ==
    /\ now \in 0..MaxClock
    /\ lock \in Tasks \cup {NoTask}
    /\ (lock = NoTask => waiters = <<>>)
    /\ last_flush \in 0..MaxClock
    /\ write_count \in Nat
    /\ error_count \in Nat

\* ---------------------------------------------------------------- helpers
Range(f) == {f[i] : i \in DOMAIN f}

\* the last n elements of a sequence
Suffix(q, n) == SubSeq(q, Len(q) - n + 1, Len(q))

\* the rows a sequence of committed upserts leaves: per key, the last one
LastWins(q) ==
    {Row(q[i]) : i \in {i \in DOMAIN q :
                          \A j \in (i + 1)..Len(q) : Key(q[j]) # Key(q[i])}}

\* task t's write_readings call returns in this step
WriteReturns(t) == job[t].st = "running" /\ job'[t].st = "done"

\* a reading is appended to the buffer in this step
AppendStep == appended' # appended

\* the body of check_timeout runs in this step
CheckTimeoutStep ==
    /\ pc[Main] \in {"tick", "granted"}
    /\ pc'[Main] \notin {"tick", "granted", "waitlock"}

\* ------------------------------------------------------------------ claims

\* C1: add appends the reading with the lock taken by no other task; when the
\* resulting size is >= batch_size the same step swaps the whole buffer out
\* into one write_readings call and the adding task keeps the lock while it
\* awaits that call; when the resulting size is < batch_size the reading is
\* left pending and the add starts no write
C1_AddFlushesAtBatchSize ==
    [][AppendStep =>
        LET r == appended'[Len(appended')]
            t == AddTask(r.id)
            b == Append(batch, r)
        IN  /\ lock \in {NoTask, t}
            /\ IF Len(b) >= BatchSize
               THEN /\ batch' = <<>>
                    /\ calls' = Append(calls, [by |-> t, trigger |-> "size",
                                               readings |-> b,
                                               result |-> "running"])
                    /\ job'[t].st = "running"
                    /\ job'[t].readings = b
                    /\ lock' = t
               ELSE /\ batch' = b
                    /\ calls' = calls
                    /\ job' = job
                    /\ lock' # t]_vars

\* a size-triggered flush is being written by the add that reached batch_size,
\* which holds the lock, after an earlier add stayed below the threshold
C1_Witness ==
    /\ Len(appended) = BatchSize
    /\ Len(calls) = 1
    /\ calls[1].trigger = "size"
    /\ lock = calls[1].by
    /\ pc[lock] = "writing"

\* C2 as stated: once N >= batch_size readings have been added to the empty
\* writer there has been exactly one flush, of the first batch_size readings
\* in insertion order, and the rest is pending
C2_ExactlyOneFlush ==
    Len(appended) >= BatchSize =>
        /\ Len(calls) = 1
        /\ calls[1].readings = SubSeq(appended, 1, BatchSize)
        /\ batch = SubSeq(appended, BatchSize + 1, Len(appended))

\* C2 amended: adding N readings to the empty writer triggers one flush per
\* full batch_size readings, N div batch_size in all, the k-th holding
\* readings (k-1)*batch_size+1 .. k*batch_size in insertion order, and leaves
\* the last N mod batch_size readings pending; so exactly one flush when
\* batch_size <= N < 2*batch_size
C2_OneFlushPerBatchSize ==
    LET n == Len(appended)
        f == n \div BatchSize
    IN  /\ Len(calls) = f
        /\ \A k \in 1..f :
              /\ calls[k].trigger = "size"
              /\ calls[k].readings =
                    SubSeq(appended, (k - 1) * BatchSize + 1, k * BatchSize)
        /\ batch = SubSeq(appended, f * BatchSize + 1, n)

\* more than batch_size readings added: one flush, the remainder pending
C2_Witness ==
    /\ Len(appended) > BatchSize
    /\ Len(calls) = 1
    /\ calls[1].readings = SubSeq(appended, 1, BatchSize)
    /\ batch # <<>>

\* C3: when check_timeout's body runs it flushes if and only if the buffer is
\* non-empty and now - last_flush >= batch_timeout: then the whole buffer is
\* swapped out into one write_readings call, whatever its size; otherwise
\* buffer, last-flush clock and writer are left untouched
C3_TimeoutFlushIff ==
    [][CheckTimeoutStep =>
        IF batch # <<>> /\ now - last_flush >= BatchTimeout
        THEN /\ batch' = <<>>
             /\ last_flush' = now
             /\ calls' = Append(calls, [by |-> Main, trigger |-> "timeout",
                                        readings |-> batch,
                                        result |-> "running"])
             /\ job'[Main].st = "running"
        ELSE /\ batch' = batch
             /\ last_flush' = last_flush
             /\ calls' = calls
             /\ job' = job]_vars

\* a timeout flush of a buffer below the size threshold
C3_Witness ==
    \E k \in DOMAIN calls :
        /\ calls[k].trigger = "timeout"
        /\ Len(calls[k].readings) = 1
        /\ Len(calls[k].readings) < BatchSize

\* C4: when a stop() invocation is about to release the storage connection
\* (its forced flush is behind it), every reading that was pending when that
\* stop() was invoked has been passed to write_readings, that call has
\* returned, and if it returned True the store holds a row for the reading's
\* (time, topic)
C4_StopFlushesPending ==
    \A s \in StopTasks :
        pc[s] \in {"health", "done"} =>
            \A r \in Range(pendingAt[s]) :
                \E k \in DOMAIN calls :
                    /\ r \in Range(calls[k].readings)
                    /\ calls[k].result # "running"
                    /\ calls[k].result = "ok" =>
                          \E x \in store : Key(x) = Key(r)

\* a stop() invoked with one reading pending has flushed it with a forced
\* flush, the write succeeded, and the connection has been released
C4_Witness ==
    \E s \in StopTasks :
        /\ pc[s] = "done"
        /\ Len(pendingAt[s]) = 1
        /\ \E k \in DOMAIN calls :
              /\ calls[k].by = s
              /\ calls[k].readings = pendingAt[s]
              /\ calls[k].result = "ok"
        /\ Row(pendingAt[s][1]) \in store

\* C5: the readings of a flush whose write failed are in no buffer and in no
\* other write_readings call: they are neither re-queued nor retried
C5_FailedBatchDropped ==
    \A k \in DOMAIN calls :
        calls[k].result = "fail" =>
            \A r \in Range(calls[k].readings) :
                /\ r \notin Range(batch)
                /\ \A t \in Tasks : job[t].st = "none" \/ job[t].call = k
                                        \/ r \notin Range(job[t].readings)
                /\ \A k2 \in DOMAIN calls :
                      k2 # k => r \notin Range(calls[k2].readings)

\* a flush failed, its task has resumed and released the lock, and readings
\* added afterwards have been flushed in a later call
C5_Witness ==
    /\ Len(calls) >= 2
    /\ calls[1].result = "fail"
    /\ calls[2].result # "running"
    /\ lock = NoTask

\* C6: a flush passes the pending readings to write_readings in the order
\* they were appended, and a committed batch leaves, for each of its keys, the
\* row of the reading appended last with that key
C6_FlushKeepsAppendOrder ==
    [][/\ Len(calls') > Len(calls) =>
            LET c == calls'[Len(calls')]
            IN  c.readings = Suffix(appended', Len(c.readings))
       /\ \A t \in Tasks :
            WriteReturns(t) /\ job'[t].ok =>
                LET rs == job[t].readings
                IN  \A i \in DOMAIN rs :
                        (\A j \in (i + 1)..Len(rs) : Key(rs[j]) # Key(rs[i]))
                            => Row(rs[i]) \in store']_vars

\* a committed batch held two readings with the same (time, topic)
C6_Witness ==
    \E k \in DOMAIN calls :
        /\ calls[k].result = "ok"
        /\ Len(calls[k].readings) >= 2
        /\ Key(calls[k].readings[1]) = Key(calls[k].readings[2])
        /\ Row(calls[k].readings[2]) \in store

\* C7: the store changes only when a write_readings call returns True, and
\* then by all upserts of its batch at once; a call that returns False
\* leaves the store as it was
C7_AllOrNothing ==
    [][/\ \A t \in Tasks :
            WriteReturns(t) =>
                IF job'[t].ok
                THEN /\ store' = ApplyAll(store, job[t].readings)
                     /\ commits' = commits \o job[t].readings
                ELSE /\ store' = store
                     /\ commits' = commits
       /\ (\A t \in Tasks : ~WriteReturns(t)) => store' = store]_vars

\* one batch was rolled back and another committed
C7_Witness ==
    \E k1, k2 \in DOMAIN calls :
        /\ calls[k1].result = "fail"
        /\ Len(calls[k1].readings) = BatchSize
        /\ calls[k2].result = "ok"
        /\ store = LastWins(calls[k2].readings)

\* C8: the store holds at most one row per (time, topic), and that row is the
\* one written last for the key, within a batch and across batches
C8_OneRowPerKeyLastWins ==
    /\ \A x, y \in store : Key(x) = Key(y) => x = y
    /\ store = LastWins(commits)

\* two committed batches wrote the same (time, topic)
C8_Witness ==
    \E k1, k2 \in DOMAIN calls :
        /\ k1 < k2
        /\ calls[k1].result = "ok"
        /\ calls[k2].result = "ok"
        /\ \E r1 \in Range(calls[k1].readings),
              r2 \in Range(calls[k2].readings) :
                /\ Key(r1) = Key(r2)
                /\ Row(r2) \in store
                /\ Row(r1) \notin store

\* C9 as stated: every write_readings call that returns False has incremented
\* the error counter and leaves the writer marked disconnected
C9_EveryFailureCounted ==
    [][\A t \in Tasks :
          WriteReturns(t) /\ ~job'[t].ok =>
              /\ error_count' = error_count + 1
              /\ ~connected']_vars

\* C10 as stated: write_count is the number of readings in committed batches
\* and last_write_time is set only once a batch has been committed
C10_StatsCountCommitted ==
    /\ write_count = Len(commits)
    /\ commits = <<>> => last_write_time = NoTime

\* ------------------------------------------------- claims on parse alone
\* the lone parse call has been made
Called == returned # NotCalled

\* the call returned a reading
IsReading(x) == "topic" \in DOMAIN x

\* the keys a payload holds
Has(payload, keys) == DOMAIN payload \cap keys # {}

\* C12 as stated: a payload with none of the keys temperature, humidity,
\* battery, battery_low makes parse return None
C12_NoneOfFourKeysGivesNone ==
    Called /\ ~Has(input.payload, {"temperature", "humidity", "battery",
                                   "battery_low"})
        => returned = NoneVal

\* C12 amended: a payload with none of the keys temperature,
\* device_temperature, local_temperature, current_heating_setpoint, humidity,
\* soil_moisture, battery, battery_low makes parse return None
C12_NoFieldKeyGivesNone ==
    Called /\ ~Has(input.payload,
                   {"temperature", "device_temperature", "local_temperature",
                    "current_heating_setpoint", "humidity", "soil_moisture",
                    "battery", "battery_low"})
        => returned = NoneVal

\* a payload carrying only a link quality, on a sensor topic, was rejected
C12_Witness ==
    /\ Called
    /\ input.topic = <<"z", "office">>
    /\ DOMAIN input.payload = {"linkquality"}
    /\ input.payload["linkquality"] = JsonValue("int", 21)
    /\ returned = NoneVal
    /\ parser_error_count = 0

\* C13 as stated: with no usable battery value and a boolean battery_low, the
\* reading's battery is 10 for true and 100 for false
C13_BatteryLowGives10Or100 ==
    /\ Called
    /\ IsReading(returned)
    /\ "battery" \notin DOMAIN input.payload
    /\ "battery_low" \in DOMAIN input.payload
    /\ input.payload["battery_low"].k = "bool"
    => returned.battery =
          IF input.payload["battery_low"].n = 1 THEN JsonValue("int", 10)
                                                ELSE JsonValue("int", 100)

\* a value that converts to a float / to an int
FloatCoercible(v) == v.k \in {"int", "bool", "float", "inf", "str"}

IntCoercible(v) ==
    \/ v.k \in {"int", "huge", "bool", "float"}
    \/ v.k = "str" /\ v.n % 10 = 0

\* the value of the first key of names that is present, non-null and
\* coercible, converted; None when there is none
FirstCandidate(payload, names, Coercible(_), Convert(_)) ==
    LET hits == {j \in DOMAIN names :
                    /\ names[j] \in DOMAIN payload
                    /\ payload[names[j]] # NoneVal
                    /\ Coercible(payload[names[j]])}
    IN  IF hits = {} THEN NoneVal
        ELSE Convert(payload[names[CHOOSE j \in hits :
                                       \A j2 \in hits : j <= j2]])

\* C14 as stated: for a non-empty payload on a sensor topic, temperature,
\* humidity and link quality are each the first candidate key, in priority
\* order, that is present, non-null and coercible; a null or non-coercible
\* value is skipped, so the reading is returned whenever a temperature or
\* humidity candidate qualifies
C14_FirstCoercibleCandidateWins ==
    LET p == input.payload
        t == FirstCandidate(p, <<"temperature", "device_temperature",
                                 "local_temperature",
                                 "current_heating_setpoint">>,
                            FloatCoercible, float)
        h == FirstCandidate(p, <<"humidity", "soil_moisture">>,
                            FloatCoercible, float)
        l == FirstCandidate(p, <<"linkquality", "link_quality">>,
                            IntCoercible, int)
    IN  Called /\ input.topic = <<"z", "office">> /\ DOMAIN p # {} =>
            IF IsReading(returned)
            THEN /\ returned.temperature = t
                 /\ returned.humidity = h
                 /\ returned.linkquality = l
            ELSE t = NoneVal /\ h = NoneVal

\* C15: for a topic ending in any of the eight ignored suffixes parse returns
\* None and leaves the parsed and the error counter as they were, whatever
\* the payload
C15_IgnoredTopicGivesNone ==
    Called /\ (\E suffix \in
                 {<<"availability">>, <<"bridge", "state">>,
                  <<"bridge", "info">>, <<"bridge", "logging">>,
                  <<"bridge", "devices">>, <<"bridge", "groups">>,
                  <<"bridge", "extensions">>, <<"bridge", "config">>} :
                 input.topic = <<"z">> \o suffix)
        => /\ returned = NoneVal
           /\ parse_count = 0
           /\ parser_error_count = 0

\* an availability topic whose payload carries a temperature was rejected
C15_Witness ==
    /\ Called
    /\ input.topic = <<"z", "availability">>
    /\ DOMAIN input.payload = {"temperature"}
    /\ input.payload["temperature"] = JsonValue("int", 21)
    /\ returned = NoneVal

\* the call was rejected by the topic, emptiness or validity filter
Filtered ==
    \/ \E suffix \in IGNORED_TOPIC_SUFFIXES : EndsWith(input.topic, suffix)
    \/ DOMAIN input.payload = {}
    \/ \A key \in DOMAIN input.payload :
          \/ input.payload[key] = NoneVal /\ key # "battery_low"
          \/ key \in {"linkquality", "link_quality"}
                /\ input.payload[key].k # "inf"

C17_DeviceNameIsLastSegment ==
    /\ extract_device_name(<<"zigbee2mqtt", "floor1", "bedroom">>) = "bedroom"
    /\ extract_device_name(<<"sensor1">>) = "sensor1"
    /\ Called /\ IsReading(returned) =>
          /\ returned.topic = input.topic
          /\ returned.device_name = input.topic[Len(input.topic)]

\* a reading for zigbee2mqtt/floor1/bedroom named bedroom
C17_Witness ==
    /\ Called
    /\ IsReading(returned)
    /\ input.topic = <<"zigbee2mqtt", "floor1", "bedroom">>
    /\ returned.device_name = "bedroom"

\* ----------------------------------------------- claims on the transport
\* the readings held anywhere between the parser and the storage writer
InFlight ==
    Range(created) \cup Range(batch)
        \cup UNION {Range(calls[k].readings) : k \in DOMAIN calls}
        \cup UNION {Range(job[t].readings) : t \in Tasks}

\* at least one of temperature, humidity, battery is non-null
Useful(x) ==
    x.temperature # NoneVal \/ x.humidity # NoneVal \/ x.battery # NoneVal

\* C11: every reading the parser produced, the buffer holds or the storage
\* writer was passed, and every stored row, has a non-null temperature,
\* humidity or battery; a payload from which none of the three resolves
\* (one carrying only a link quality) leaves no reading and no row
C11_OnlyUsefulReadingsKept ==
    /\ \A r \in InFlight : Useful(r)
    /\ \A x \in store : Useful(x)
    /\ \A r \in InFlight \cup store : DOMAIN r.raw_data # {"linkquality"}
    /\ Len(created) = parse_count

\* a message carrying only a link quality reached the callback and was
\* discarded, while a reading with a temperature was persisted
C11_Witness ==
    /\ \E j \in DOMAIN delivered :
          DOMAIN delivered[j].payload = {"linkquality"}
    /\ store # {}
    /\ Len(created) < Len(delivered)

\* C18 as stated: every stored row carries the device_name of its reading,
\* and once messages with a temperature for z/office, z/bedroom and z/fridge
\* have all been flushed and committed the store holds exactly three rows,
\* named office, bedroom and fridge
C18_RowsCarryDeviceName ==
    /\ \A x \in store :
          /\ "device_name" \in DOMAIN x
          /\ x.device_name = x.topic[Len(x.topic)]
    /\ ( /\ {r.topic : r \in Range(commits)} = TransportTopics
         /\ Len(commits) = 3 )
       => /\ Cardinality(store) = 3
          /\ {x.topic : x \in store} = TransportTopics

\* the raw payload of the j-th message decodes as UTF-8 JSON to an object
DecodesToObject(j) == messages[j].raw.kind = "object"

\* C19 as stated: the callback has been invoked, with topic and decoded
\* payload, for exactly the messages whose payload decodes to a JSON object,
\* in order, and the messages dropped (not JSON, or JSON but no object) have
\* not incremented the transport's error counter
C19_CallbackIffObject ==
    /\ delivered =
          [j \in 1..Len(delivered) |->
              LET objs == SelectSeq(messages,
                                    LAMBDA m : m.raw.kind = "object")
              IN  [topic |-> objs[j].topic, payload |-> objs[j].raw.value]]
    /\ Len(delivered) =
          Cardinality({j \in DOMAIN messages : DecodesToObject(j)})
    /\ mqtt_error_count = 0

\* C20 as stated: every message whose payload fails to decode as JSON has
\* been counted in the errors figure of the transport's stats
C20_DecodeFailuresCounted ==
    mqtt_error_count =
        Cardinality({j \in DOMAIN messages :
                        messages[j].raw.kind \in {"not_utf8", "not_json"}})

\* ------------------------------------------------- claims on the lifecycle
\* a write_readings call of a swapped-out batch is executing
Writing == {t \in Tasks : job[t].st = "running"}

\* C25 as stated: whenever the storage write of a swapped-out batch is in
\* progress the buffer's lock is free, so that an add arriving meanwhile
\* appends to the new buffer instead of waiting
C25_LockFreeDuringWrite ==
    Writing # {} => /\ lock = NoTask
                    /\ waiters = <<>>

\* check_timeout swaps the buffer out and submits its write in this step
TimeoutFlushBegins ==
    /\ Len(calls') = Len(calls) + 1
    /\ calls'[Len(calls')].trigger = "timeout"

\* check_timeout resumes after its write and returns in this step
TimeoutFlushCompletes == pc[Main] = "writing" /\ pc'[Main] # "writing"

\* C27 as stated: once the shutdown event is set, no step begins a timeout
\* flush and no step completes one
C27_NoTimeoutFlushAfterShutdown ==
    [][shutdown_event => ~TimeoutFlushBegins /\ ~TimeoutFlushCompletes]_vars

\* stop() of invocation s calls DatabaseWriter.disconnect in this step
DisconnectStep(s) == pc[s] = "health" /\ pc'[s] = "done"

\* C28 as stated: no invocation of stop() releases the storage connection
\* while a write_readings call started by a flush is still executing
C28_NoDisconnectDuringWrite ==
    [][\A s \in StopTasks : DisconnectStep(s) => Writing = {}]_vars

\* the buffer a step's _flush finds: the step's append included
BufferAtFlush ==
    IF AppendStep THEN Append(batch, appended'[Len(appended')]) ELSE batch

\* a non-empty buffer is swapped out for an empty one in this step
SwapStep == BufferAtFlush # <<>> /\ batch' = <<>>

\* C30: a step swaps a non-empty buffer out if and only if it makes one
\* write_readings call; the call's argument is the whole buffer found at the
\* swap, the executor is handed exactly that call, and a call once made keeps
\* its argument and returns at most once
C30_OneWritePerFlush ==
    [][/\ SwapStep <=> Len(calls') # Len(calls)
       /\ SwapStep =>
             /\ Len(calls') = Len(calls) + 1
             /\ LET c == calls'[Len(calls')]
                IN  /\ c.readings = BufferAtFlush
                    /\ c.result = "running"
                    /\ job[c.by].st = "none"
                    /\ job'[c.by] = [st |-> "running", readings |-> BufferAtFlush,
                                     ok |-> FALSE, call |-> Len(calls')]
       /\ \A k \in DOMAIN calls :
             /\ calls'[k].readings = calls[k].readings
             /\ calls'[k].by = calls[k].by
             /\ calls'[k].result # calls[k].result =>
                   /\ calls[k].result = "running"
                   /\ WriteReturns(calls[k].by)
                   /\ job[calls[k].by].call = k
       /\ \A t \in Tasks : WriteReturns(t) =>
             calls'[job[t].call].result # "running"]_vars

\* two flushes, a timeout flush and a forced one, have each made their one
\* call, and both calls have returned
C30_Witness ==
    /\ Len(calls) = 2
    /\ calls[1].trigger = "timeout"
    /\ calls[2].trigger = "forced"
    /\ \A k \in 1..2 : calls[k].result # "running" /\ calls[k].readings # <<>>

\* the initial storage connection, made by start(), failed
InitialConnectFailed == connects # <<>> /\ ~connects[1]

\* C23: when the initial storage connection fails, start() has exited through
\* sys.exit(1) with no batch writer created, no transport client created, no
\* network loop started and no handshake or message handled; conversely a
\* transport client, a running network loop or a received reading imply that
\* the initial storage connection was established
C23_FatalStartupBeforeTransport ==
    /\ InitialConnectFailed =>
          /\ pc[Main] = "exited"
          /\ ~bw
          /\ ~client
          /\ ~mqtt_loop
          /\ ~running
          /\ handshakes = <<>>
          /\ created = <<>>
          /\ connects = <<FALSE>>
    /\ (client \/ mqtt_loop \/ created # <<>>) =>
          /\ connects # <<>>
          /\ connects[1]
          /\ bw

\* the initial connection failed and main()'s finally block has run stop(),
\* which found neither a batch writer nor a transport client
C23_Witness ==
    /\ InitialConnectFailed
    /\ pc[FinStop] = "done"
    /\ steps[FinStop] = <<"db_disconnect">>

\* C24 as stated: no transport failure terminates the process, that is,
\* start() calls sys.exit only when the initial storage connection failed
C24_TransportFailureNeverFatal ==
    pc[Main] = "exited" => InitialConnectFailed

\* the order Ingester.stop is said to follow
StopOrder ==
    <<"flush", "publish_offline", "loop_stop", "mqtt_disconnect",
      "db_disconnect">>

Pos(x) == CHOOSE i \in 1..Len(StopOrder) : StopOrder[i] = x

\* C26: what an invocation of stop() has done so far follows the order forced
\* flush, offline publication, network loop stop, transport disconnect,
\* storage release, each at most once; the offline message is published
\* retained in the very step that then stops the loop and disconnects; an
\* invocation that has finished released the storage connection last, after
\* its forced flush when there is a batch writer
C26_StopOrder ==
    [][\A s \in StopTasks :
          LET done == steps'[s]
          IN  /\ \A i, j \in DOMAIN done :
                    i < j => Pos(done[i]) < Pos(done[j])
              /\ ("publish_offline" \in Range(done)
                    /\ "publish_offline" \notin Range(steps[s])) =>
                    /\ outbox' = Append(outbox,
                                        Publish("offline", NoTime, 1, TRUE))
                    /\ {"loop_stop", "mqtt_disconnect"} \subseteq Range(done)
                    /\ ~mqtt_loop'
                    /\ ~mqtt_connected'
                    /\ "db_disconnect" \notin Range(done)
              /\ pc'[s] = "done" =>
                    /\ done[Len(done)] = "db_disconnect"
                    /\ bw => "flush" \in Range(done)
                    /\ job'[s].st = "none"]_vars

\* an invocation of stop() has flushed a pending batch, stopped a started
\* transport and released the storage connection
C26_Witness ==
    \E s \in StopTasks :
        /\ steps[s] = StopOrder
        /\ pendingAt[s] # <<>>
        /\ \E k \in DOMAIN calls :
              calls[k].by = s /\ calls[k].result # "running"

\* ---------------------------------------------- claims on write_readings
\* the calls of DatabaseWriter.connect made in this step
ConnectAttempts == Len(connects') - Len(connects)

\* C29: a write_readings call that returns made one reconnect attempt when
\* the batch was non-empty and the writer disconnected, none otherwise; after
\* a failed attempt it returned False with the table and the counters as they
\* were; after a successful one it went on to the upserts in the same call,
\* either committing the whole batch or failing in the write; given the empty
\* batch it returned True and left the writer's state as it was
C29_OneInlineReconnect ==
    [][\A t \in Tasks : WriteReturns(t) =>
          LET rs == job[t].readings
          IN  /\ rs = <<>> =>
                    /\ job'[t].ok
                    /\ ConnectAttempts = 0
                    /\ UNCHANGED <<dbVars, commits>>
              /\ (rs # <<>> /\ connected) => ConnectAttempts = 0
              /\ (rs # <<>> /\ ~connected) =>
                    /\ ConnectAttempts = 1
                    /\ ~connects'[Len(connects')] =>
                          /\ ~job'[t].ok
                          /\ ~connected'
                          /\ UNCHANGED <<store, commits, write_count,
                                         error_count, last_write_time>>
                    /\ connects'[Len(connects')] =>
                          \/ /\ job'[t].ok
                             /\ connected'
                             /\ commits' = commits \o rs
                             /\ store' = ApplyAll(store, rs)
                          \/ /\ ~job'[t].ok
                             /\ error_count' = error_count + 1
                             /\ store' = store]_vars

\* a call found the writer disconnected, reconnected and committed its batch
C29_Witness ==
    /\ job[Main].st = "done"
    /\ job[Main].ok
    /\ job[Main].readings # <<>>
    /\ connects = <<TRUE, FALSE, TRUE>>
    /\ commits = job[Main].readings

\* ------------------------------------------ claims on the link and probes
\* what the transport client sent the broker in this step
Sent == SubSeq(outbox', Len(outbox) + 1, Len(outbox'))

\* C21: every handshake with reason code 0 makes the client subscribe to the
\* configured topic pattern at QoS 1 and then publish, retained, the status
\* "online" with the connection time taken in that handshake; a handshake
\* with another reason code sends nothing and leaves the client disconnected
C21_HandshakeResubscribes ==
    [][handshakes' # handshakes =>
          IF handshakes'[Len(handshakes')] = 0
          THEN /\ Len(Sent) = 2
               /\ Sent[1].op = "subscribe"
               /\ Sent[1].topic = "settings.mqtt_topic"
               /\ Sent[1].qos = 1
               /\ Sent[2].op = "publish"
               /\ Sent[2].status = "online"
               /\ Sent[2].retain
               /\ Sent[2].at = now
               /\ connect_time' = now
               /\ mqtt_connected'
          ELSE /\ Sent = <<>>
               /\ ~mqtt_connected'
               /\ connect_time' = connect_time]_vars

\* the client connected, lost the connection and connected again later: it
\* has subscribed and published its online status twice
C21_Witness ==
    /\ handshakes = <<0, 0>>
    /\ Len(outbox) = 4
    /\ outbox[3].op = "subscribe"
    /\ outbox[4].status = "online"
    /\ outbox[4].at > outbox[2].at
    /\ mqtt_connected

\* both the transport client and the storage writer are marked connected
BothConnected == mqtt_connected /\ connected

\* C22: in every state the health handler would answer 200 iff both are
\* marked connected and 503 otherwise, the readiness handler would answer
\* 200 with ready true under the same condition and 503 with ready false
\* otherwise, and every answer given is the one of the state it is given in
C22_ProbesAgree ==
    /\ [](LET h == HealthResponse(_get_stats)
              r == ReadyResponse(_get_stats)
          IN  /\ h.code = IF BothConnected THEN 200 ELSE 503
              /\ r.code = IF BothConnected THEN 200 ELSE 503
              /\ r.flag <=> BothConnected
              /\ h.code = r.code)
    /\ [][response' # response =>
             /\ response'.code = IF BothConnected THEN 200 ELSE 503
             /\ response'.path = "/ready" =>
                   (response'.flag <=> BothConnected)
             /\ response'.path = "/health" =>
                   /\ response'.mqtt = "ok" <=> mqtt_connected
                   /\ response'.database = "ok" <=> connected]_vars

\* the health endpoint answered 503 while the transport was connected and a
\* failed write had left the storage writer disconnected
C22_Witness ==
    /\ response = [path |-> "/health", code |-> 503, flag |-> FALSE,
                   mqtt |-> "ok", database |-> "fail"]
    /\ mqtt_connected
    /\ ~connected
    /\ error_count > 0

\* ------------------------------------------------ claims on the batcher
\* C31: the buffer never holds more than batch_size readings, and holds fewer
\* than batch_size whenever no task owns the buffer's lock
C31_BufferBounded ==
    /\ Len(batch) <= BatchSize
    /\ lock = NoTask => Len(batch) < BatchSize

\* more readings than batch_size have been appended and a write has failed;
\* the lock is free and the buffer is one reading short of batch_size
C31_Witness ==
    /\ lock = NoTask
    /\ Len(batch) = BatchSize - 1
    /\ Len(appended) > BatchSize
    /\ error_count > 0
    /\ \E k \in DOMAIN calls : calls[k].result = "fail"

\* the readings the previous run of check_timeout left pending
LeftByLastTick == IF ticks = <<>> THEN {} ELSE Range(ticks[Len(ticks)])

\* C32: when check_timeout runs and finds in the buffer a reading that its
\* previous run left pending, it flushes the buffer in that step; consecutive
\* runs are at least batch_timeout apart
C32_PendingAtMostOneTick ==
    [][CheckTimeoutStep =>
          /\ (LeftByLastTick \cap Range(batch) # {}) =>
                /\ TimeoutFlushBegins
                /\ calls'[Len(calls')].readings = batch
                /\ ticks'[Len(ticks')] = <<>>
          /\ Len(ticks') = Len(ticks) + 1
          /\ now - waitStart >= BatchTimeout]_vars

\* a tick left a reading pending because a size flush had just reset the
\* clock, and the next tick flushed that reading
C32_Witness ==
    /\ Len(ticks) >= 2
    /\ ticks[Len(ticks) - 1] # <<>>
    /\ ticks[Len(ticks)] = <<>>
    /\ \E k \in DOMAIN calls :
          /\ calls[k].trigger = "timeout"
          /\ calls[k].readings = ticks[Len(ticks) - 1]
    /\ \E k \in DOMAIN calls : calls[k].trigger = "size"

\* ------------------------------------------------ claims on the session
\* C33: the transport client is marked connected exactly when the latest of
\* its connection events is a successful handshake; it is not before any
\* event, nor when the latest event is connect() having initiated the
\* attempt, a refused handshake, a disconnect callback or stop()
C33_ConnectedIffLastEventHandshake ==
    mqtt_connected <=>
        (link_log # <<>> /\ link_log[Len(link_log)] = "handshake_ok")

\* the client connected, lost the connection, connected again and was
\* stopped: the flag is down after the stop
C33_Witness ==
    /\ link_log = <<"connect", "handshake_ok", "disconnect", "handshake_ok",
                    "stop">>
    /\ ~mqtt_connected

\* --------------------------------------------- claims on the network thread
\* the parser returns a reading for the message the callback takes in this
\* step
ReadingReturned ==
    /\ Len(messages') = Len(messages) + 1
    /\ LET m == messages'[Len(messages')]
       IN  CreatesTask(m.topic, m.raw)

\* C34 as stated: whenever the parser returns a reading inside the message
\* callback, an add for that reading is created and the transport records no
\* error
C34_EveryReadingScheduled ==
    [][ReadingReturned =>
          /\ Len(created') = Len(created) + 1
          /\ mqtt_error_count' = mqtt_error_count]_vars

\* ------------------------------------------------- claims on conservation
RECURSIVE PassedTo(_)
\* the readings passed to write_readings by the first k calls, in order
PassedTo(k) == IF k = 0 THEN <<>> ELSE PassedTo(k - 1) \o calls[k].readings

\* C35: the readings appended to the buffer are, in append order, those
\* passed to write_readings by the calls made so far followed by those still
\* pending in the buffer: each appended reading is in exactly one of the two,
\* none is passed twice and none is lost
C35_Conservation == appended = PassedTo(Len(calls)) \o batch

\* the forced flush of stop() has passed a reading on and its write has
\* returned, and a reading appended behind it is pending
C35_Witness ==
    /\ Len(calls) = 1
    /\ calls[1].trigger = "forced"
    /\ calls[1].result # "running"
    /\ calls[1].readings # <<>>
    /\ batch # <<>>
    /\ lock = NoTask

\* C36: at most one write_readings call started by the batcher is in
\* progress, and the task awaiting it holds the batcher's lock, so that no
\* other flush can start a write before it has returned
C36_OneWriteInProgress ==
    /\ Cardinality({k \in DOMAIN calls : calls[k].result = "running"}) <= 1
    /\ Cardinality(Writing) <= 1
    /\ \A t \in Writing : lock = t

\* a second write is in progress after the first has returned, while another
\* flush waits for the lock
C36_Witness ==
    /\ Len(calls) = 2
    /\ calls[1].result # "running"
    /\ calls[2].result = "running"
    /\ calls[1].trigger # calls[2].trigger
    /\ waiters # <<>>

\* ------------------------------------------------------- claims on stop()
\* the adds whose task was created and has not finished
Outstanding ==
    {i \in DOMAIN created : pc[AddTask(i)] \in {"waitlock", "granted", "writing"}}

\* C37 as stated: when an invocation of stop() that stopped the transport
\* client has returned, the buffer is empty, no add is outstanding and every
\* reading handed to add has been passed to write_readings
C37_NothingPendingAfterStop ==
    \A s \in StopTasks :
        pc[s] = "done" /\ "loop_stop" \in Range(steps[s]) =>
            /\ batch = <<>>
            /\ Outstanding = {}
            /\ created = PassedTo(Len(calls))

\* --------------------------------------------- claims on the loop's errors
\* the exception of a write leaves check_timeout in this step
TickFails ==
    /\ pc[Main] = "writing"
    /\ job[Main].st = "raised"
    /\ pc'[Main] # "writing"

\* C38: a tick whose check_timeout raises leaves the supervising loop in its
\* error handler with the batcher's lock released, never returned or exited,
\* and when the handler's sleep is over the loop waits for its next tick as
\* long as shutdown was not requested
C38_LoopSurvivesFailedTick ==
    /\ [][TickFails =>
             /\ pc'[Main] = "sleep"
             /\ lock' # Main
             /\ running' = running]_vars
    /\ [][pc[Main] = "sleep" /\ pc'[Main] # "sleep" =>
             pc'[Main] = IF running THEN "wait" ELSE "returned"]_vars
    /\ [](running => pc[Main] \notin {"returned", "exited"})

\* a timeout flush raised, and on a later tick check_timeout flushed again
C38_Witness ==
    \E k1, k2 \in DOMAIN calls :
        /\ k1 < k2
        /\ calls[k1].by = Main
        /\ calls[k1].result = "raised"
        /\ calls[k2].by = Main
        /\ calls[k2].result = "ok"

\* ------------------------------------------ claims on the last-flush clock
\* C39: once the batch writer exists, every step that flushes a non-empty
\* buffer sets last_flush to the current time, and every other step (an add
\* below batch_size, a check_timeout that does not flush, a forced flush of
\* an empty buffer) leaves last_flush as it was and makes no write_readings
\* call
C39_LastFlushResetByFlushOnly ==
    [][pc[Main] # "start" =>
          IF SwapStep
          THEN last_flush' = now
          ELSE /\ last_flush' = last_flush
               /\ Len(calls') = Len(calls)]_vars

\* a timeout flush took a reading in the tick it arrived in, the timeout
\* having run from the previous reset of last_flush, and a stop() made its
\* forced flush on an empty buffer, without a call
C39_Witness ==
    /\ \E k \in DOMAIN calls :
          /\ calls[k].trigger = "timeout"
          /\ calls[k].readings[1].time = last_flush
          /\ last_flush > 0
    /\ \E s \in StopTasks :
          /\ "flush" \in Range(steps[s])
          /\ pendingAt[s] = <<>>
    /\ \A k \in DOMAIN calls : calls[k].trigger # "forced"

====
